---- MODULE Spec2Model ----
(***************************************************************************)
(* GitHub Issues Analysis Dashboard (src/app.py): the issue retrieval and  *)
(* filtering pipeline.                                                     *)
(*                                                                         *)
(*   fetch_all_issues      paginated fetch behind st.cache_data(ttl=300)   *)
(*   filter_issues_by_date the date filter                                 *)
(*   main execution        resolution times, summary metrics, weekday      *)
(*                         counts and the final message of a run           *)
(*                                                                         *)
(* Time is counted in seconds.  An API timestamp string such as            *)
(* "2024-01-01T00:00:00Z" is the number of seconds after                   *)
(* 2024-01-01T00:00:00Z, which is a Monday.  A date is a day number, day 0 *)
(* being 2024-01-01.  Rendering calls (st.progress, st.metric, the charts) *)
(* belong to the presentation layer and change no pipeline state; only the *)
(* messages that end a run (st.error, st.warning) are kept.                *)
(***************************************************************************)
EXTENDS Integers, Sequences, FiniteSets, TLC

VARIABLES
    cache,            \* st.cache_data store of fetch_all_issues: key -> entry
    clock,            \* seconds on the cache's timer
    pc,               \* "idle" | "fetch" | "main"
    key,              \* (owner, repo, state) of the running call
    page,             \* fetch_all_issues: page
    all_issues,       \* fetch_all_issues: all_issues
    requests,         \* page numbers passed to requests.get by the running call
    responses,        \* what each of those requests answered
    fetch_err,        \* status shown by st.error inside fetch_all_issues, 0 if none
    returned,         \* main: all_issues, the value fetch_all_issues returned
    filter,           \* main: filter_type and filter_params
    now,              \* filter_issues_by_date: now
    filtered_issues,  \* main: filtered_issues
    resolution_times, \* main: resolution_times, in seconds (86400ths of a day)
    avg_resolution,   \* main: value of the "Avg Resolution Time" metric
    dow_counts,       \* main: dow_counts
    outcome           \* how the last run ended

vars == <<cache, clock, pc, key, page, all_issues, requests, responses,
          fetch_err, returned, filter, now, filtered_issues,
          resolution_times, avg_resolution, dow_counts, outcome>>

fetchVars == <<page, all_issues, requests, responses, fetch_err>>
mainVars  == <<filter, now, filtered_issues, resolution_times,
               avg_resolution, dow_counts, outcome>>

---------------------------------------------------------------------------
(* Program constants *)

per_page == 100
MAX_PAGES == 50
TTL == 300
SECONDS_PER_DAY == 86400
DAYS_PER_WEEK == 7
DAYS_PER_MONTH == 30
HTTP_OK == 200

(* Bounds of the model *)

MaxPageLen == 2      \* entries on one page of the remote API (<= per_page)
MaxIssues == 2       \* issues (not pull requests) the remote repository holds
MaxLen == 3          \* length of the issue list given to the main execution
MaxTicks == 3        \* the clock stops advancing after MaxTicks ticks
TickStep == 100      \* seconds per tick of the clock

---------------------------------------------------------------------------
(* Values *)

None == <<>>                    \* Python None / JSON null / absent value
Some(x) == <<x>>
NaN == <<>>                     \* pandas missing value
IsNumber(v) == v # NaN

\* An entry of the API's JSON array.  pull_request stands for the presence
\* of the "pull_request" key.  closed_at is None while the issue is open.
Entry(n, pr, created, closed, st) ==
    [number |-> n, pull_request |-> pr, created_at |-> created,
     closed_at |-> closed, state |-> st]

Issue1 == Entry(1, FALSE, 0, Some(2 * SECONDS_PER_DAY), "closed")
Issue2 == Entry(2, FALSE, SECONDS_PER_DAY, None, "open")
Issue3 == Entry(3, FALSE, (8 * SECONDS_PER_DAY) + 43200,
                Some((8 * SECONDS_PER_DAY) + 43200), "closed")
PullReq == Entry(4, TRUE, SECONDS_PER_DAY, None, "open")

ApiEntries == {Issue1, PullReq}
Issues == {Issue1, Issue2, Issue3}
Statuses == {HTTP_OK, 403}

RECURSIVE SeqsUpTo(_, _)
SeqsUpTo(S, n) ==
    IF n = 0 THEN {<<>>}
    ELSE LET shorter == SeqsUpTo(S, n - 1)
         IN shorter \cup {Append(s, x) : s \in {q \in shorter : Len(q) = n - 1}, x \in S}

Bodies == SeqsUpTo(ApiEntries, MaxPageLen)

Owners == {"ONDC-Official"}
Repos == {"pramaan"}
IssueStates == {"all", "open"}
Keys == Owners \X Repos \X IssueStates

Weekdays == <<"Monday", "Tuesday", "Wednesday", "Thursday", "Friday",
              "Saturday", "Sunday">>
WeekdaySet == {Weekdays[i] : i \in 1..7}

FilterSpecs ==
    {[filter_type |-> "All Time", kwargs |-> <<>>]}
    \cup {[filter_type |-> "Specific Day", kwargs |-> [selected_date |-> d]] : d \in {0, 5}}
    \cup {[filter_type |-> "Date Range", kwargs |-> [start_date |-> 0, end_date |-> e]] : e \in {1, 9}}
    \cup {[filter_type |-> "Last N Days", kwargs |-> [n_days |-> n]] : n \in {1, 7}}
    \cup {[filter_type |-> "Last N Weeks", kwargs |-> [n_weeks |-> 1]]}
    \cup {[filter_type |-> "Last N Months", kwargs |-> [n_months |-> 1]]}
NoFilter == [filter_type |-> "unset", kwargs |-> <<>>]

Nows == {(2 * SECONDS_PER_DAY) + 43200, 9 * SECONDS_PER_DAY}

---------------------------------------------------------------------------
(* pandas timestamps *)

\* pd.to_datetime of an API string: the trailing "Z" makes the Timestamp
\* timezone-aware (UTC).
to_datetime(s) == [t |-> s, tz |-> "UTC"]

\* pd.to_datetime of a datetime.date (a st.date_input value): midnight of
\* that day, timezone-naive.
date_to_datetime(d) == [t |-> d * SECONDS_PER_DAY, tz |-> "naive"]

\* datetime.now(): a timezone-naive datetime.
naive_datetime(s) == [t |-> s, tz |-> "naive"]

\* Timestamp.date()
date(ts) == ts.t \div SECONDS_PER_DAY

\* Timestamp ordering (<=, >=) raises TypeError between a timezone-aware
\* and a timezone-naive operand.
Comparable(a, b) == a.tz = b.tz

\* Series.dt.day_name(); day 0 is a Monday.
day_name(ts) == Weekdays[(date(ts) % DAYS_PER_WEEK) + 1]

---------------------------------------------------------------------------
(* fetch_all_issues *)

\* line 73: response.status_code != 200
IsError(status) == status # HTTP_OK

\* Variant: the error path returns what was accumulated so far.
ErrorReturn_Partial(acc) == acc

\* line 75: return []
ErrorReturn(acc) == <<>>

NotPullRequest(issue) == ~issue.pull_request

\* Variant: emptiness tested after the pull requests are removed.
PageEmpty_AfterFilter(issues) == SelectSeq(issues, NotPullRequest) = <<>>

\* line 79: not issues, tested on the raw body of the page
PageEmpty(issues) == issues = <<>>

\* Variant: the page's entries are accumulated as they come.
FilterPullRequests_Off(issues) == issues

\* line 83: [issue for issue in issues if "pull_request" not in issue]
FilterPullRequests(issues) == SelectSeq(issues, NotPullRequest)

\* Variant: the safety break one page late.
SafetyBreak_OffByOne(p) == p > MAX_PAGES + 1

\* line 90: if page > 50: break
SafetyBreak(p) == p > MAX_PAGES

\* st.cache_data(ttl=300): an entry is served while its age is below ttl.
CacheHit(entry, t) == entry # None /\ t - entry[1].stored_at < TTL

\* Variant: the outcome of a failed call is not stored.
CacheStore_SkipFailures(c, k, v, e, t) ==
    IF e # 0 THEN c
    ELSE [c EXCEPT ![k] = Some([value |-> v, err |-> e, stored_at |-> t])]

\* st.cache_data stores the value the call returned, with the elements the
\* call rendered, whatever the value is.
CacheStore(c, k, v, e, t) ==
    [c EXCEPT ![k] = Some([value |-> v, err |-> e, stored_at |-> t])]

ResetMain ==
    /\ filter' = NoFilter
    /\ now' = 0
    /\ filtered_issues' = <<>>
    /\ resolution_times' = <<>>
    /\ avg_resolution' = None
    /\ dow_counts' = [d \in {} |-> NaN]
    /\ outcome' = "running"

\* "Analyze Issues" (or a rerun with auto_run set): line 139 calls the
\* cached fetch_all_issues(owner, repo, issue_state).
Trigger ==
    /\ pc = "idle"
    /\ \E k \in Keys :
        /\ key' = k
        /\ ResetMain
        /\ page' = 1
        /\ all_issues' = <<>>
        /\ requests' = <<>>
        /\ responses' = <<>>
        /\ IF CacheHit(cache[k], clock)
           THEN /\ returned' = cache[k][1].value
                /\ fetch_err' = cache[k][1].err
                /\ pc' = "main"
           ELSE /\ returned' = <<>>
                /\ fetch_err' = 0
                /\ pc' = "fetch"
    /\ UNCHANGED <<cache, clock>>

\* fetch_all_issues returns v, having shown error e (0: none): the cache
\* stores it and the main execution goes on with it.
Return(v, e) ==
    /\ returned' = v
    /\ fetch_err' = e
    /\ cache' = CacheStore(cache, key, v, e, clock)
    /\ pc' = "main"

\* One iteration of the while loop, lines 61-91.
FetchPage ==
    /\ pc = "fetch"
    /\ \E status \in Statuses, body \in Bodies :
        /\ Len(all_issues) + Len(SelectSeq(body, NotPullRequest)) <= MaxIssues
        /\ requests' = Append(requests, page)
        /\ responses' = Append(responses, [status |-> status,
                                           empty |-> status = HTTP_OK /\ body = <<>>])
        /\ IF IsError(status)
           THEN /\ Return(ErrorReturn(all_issues), status)
                /\ UNCHANGED <<page, all_issues>>
           ELSE IF PageEmpty(body)
           THEN /\ Return(all_issues, 0)
                /\ UNCHANGED <<page, all_issues>>
           ELSE LET acc == all_issues \o FilterPullRequests(body)
                IN /\ all_issues' = acc
                   /\ page' = page + 1
                   /\ IF SafetyBreak(page + 1)
                      THEN Return(acc, 0)
                      ELSE UNCHANGED <<returned, fetch_err, cache, pc>>
    /\ UNCHANGED <<clock, key, mainVars>>

\* Time passes between runs.
Tick ==
    /\ pc = "idle"
    /\ clock < MaxTicks * TickStep
    /\ clock' = clock + TickStep
    /\ UNCHANGED <<cache, pc, key, fetchVars, returned, mainVars>>

---------------------------------------------------------------------------
(* filter_issues_by_date *)

\* The test of one issue, lines 106-130: "keep", "drop", or "raise" when
\* the comparison raises TypeError.
Keep(created_at, filter_type, kwargs, nw) ==
    CASE filter_type = "Specific Day" ->
           LET target_date == date_to_datetime(kwargs.selected_date)
           IN IF date(created_at) = date(target_date) THEN "keep" ELSE "drop"
      [] filter_type = "Date Range" ->
           LET start_date == date_to_datetime(kwargs.start_date)
               end_date == date_to_datetime(kwargs.end_date)
           IN IF ~Comparable(start_date, created_at) THEN "raise"
              ELSE IF start_date.t <= created_at.t /\ created_at.t <= end_date.t
                   THEN "keep" ELSE "drop"
      [] filter_type = "Last N Days" ->
           LET cutoff_date == naive_datetime(nw - (kwargs.n_days * SECONDS_PER_DAY))
           IN IF ~Comparable(created_at, cutoff_date) THEN "raise"
              ELSE IF created_at.t >= cutoff_date.t THEN "keep" ELSE "drop"
      [] filter_type = "Last N Weeks" ->
           LET cutoff_date == naive_datetime(nw - (kwargs.n_weeks * DAYS_PER_WEEK * SECONDS_PER_DAY))
           IN IF ~Comparable(created_at, cutoff_date) THEN "raise"
              ELSE IF created_at.t >= cutoff_date.t THEN "keep" ELSE "drop"
      [] filter_type = "Last N Months" ->
           LET cutoff_date == naive_datetime(nw - (kwargs.n_months * DAYS_PER_MONTH * SECONDS_PER_DAY))
           IN IF ~Comparable(created_at, cutoff_date) THEN "raise"
              ELSE IF created_at.t >= cutoff_date.t THEN "keep" ELSE "drop"
      [] OTHER -> "drop"

\* The for loop of lines 103-130 from issue i on, acc being filtered_issues.
RECURSIVE FilterLoop(_, _, _, _, _, _)
FilterLoop(issues, i, filter_type, kwargs, nw, acc) ==
    IF i > Len(issues) THEN [raised |-> FALSE, value |-> acc]
    ELSE LET issue == issues[i]
             r == Keep(to_datetime(issue.created_at), filter_type, kwargs, nw)
         IN IF r = "raise" THEN [raised |-> TRUE, value |-> <<>>]
            ELSE FilterLoop(issues, i + 1, filter_type, kwargs, nw,
                            IF r = "keep" THEN Append(acc, issue) ELSE acc)

\* lines 96-132; raised: a TypeError left the function.
filter_issues_by_date(issues, filter_type, kwargs, nw) ==
    IF filter_type = "All Time" THEN [raised |-> FALSE, value |-> issues]
    ELSE FilterLoop(issues, 1, filter_type, kwargs, nw, <<>>)

---------------------------------------------------------------------------
(* Main execution *)

RECURSIVE SumSeq(_)
SumSeq(s) == IF s = <<>> THEN 0 ELSE Head(s) + SumSeq(Tail(s))

\* Variant: an open issue counts with a resolution time of zero.
ResolutionOf_ZeroForOpen(issue) ==
    IF issue.closed_at # None
    THEN <<issue.closed_at[1] - issue.created_at>> ELSE <<0>>

\* lines 170-173: the resolution time one issue adds to resolution_times.
ResolutionOf(issue) ==
    LET created_at == to_datetime(issue.created_at)
        closed_at == IF issue.closed_at # None
                     THEN Some(to_datetime(issue.closed_at[1])) ELSE None
    IN IF closed_at # None THEN <<closed_at[1].t - created_at.t>> ELSE <<>>

\* The for loop of lines 166-184, as far as resolution_times goes.
RECURSIVE ResolutionTimes(_)
ResolutionTimes(issues) ==
    IF issues = <<>> THEN <<>>
    ELSE ResolutionOf(Head(issues)) \o ResolutionTimes(Tail(issues))

\* lines 203-207: the mean in days as a fraction, None for "N/A".
AvgResolution(times) ==
    IF times # <<>>
    THEN Some([num |-> SumSeq(times), den |-> Len(times) * SECONDS_PER_DAY])
    ELSE None

\* lines 223-226: value_counts() of the day names, reindexed over the seven
\* names; reindex gives a name that value_counts lacks the missing value.
DayCount(issues, d) ==
    Cardinality({i \in 1..Len(issues) : day_name(to_datetime(issues[i].created_at)) = d})
DowCounts(issues) ==
    [d \in WeekdaySet |->
        IF DayCount(issues, d) > 0 THEN Some(DayCount(issues, d)) ELSE NaN]

\* lines 141-276, after fetch_all_issues has returned.
Main ==
    /\ pc = "main"
    /\ pc' = "idle"
    /\ IF returned = <<>>
       THEN \* lines 141-143: st.error, st.stop
            /\ outcome' = "error"
            /\ UNCHANGED <<filter, now, filtered_issues, resolution_times,
                           avg_resolution, dow_counts>>
       ELSE \E f \in FilterSpecs, nw \in Nows :
            LET r == filter_issues_by_date(returned, f.filter_type, f.kwargs, nw)
            IN /\ filter' = f
               /\ now' = nw
               /\ IF r.raised
                  THEN /\ outcome' = "exception"
                       /\ UNCHANGED <<filtered_issues, resolution_times,
                                      avg_resolution, dow_counts>>
                  ELSE /\ filtered_issues' = r.value
                       /\ resolution_times' = ResolutionTimes(r.value)
                       /\ avg_resolution' = AvgResolution(ResolutionTimes(r.value))
                       /\ IF Len(r.value) > 0
                          THEN /\ dow_counts' = DowCounts(r.value)
                               /\ outcome' = "report"
                          ELSE /\ outcome' = "warning"
                               /\ UNCHANGED dow_counts
    \* the call's locals are gone once the script has run
    /\ page' = 1
    /\ all_issues' = <<>>
    /\ requests' = <<>>
    /\ responses' = <<>>
    /\ UNCHANGED <<cache, clock, key, fetch_err, returned>>

---------------------------------------------------------------------------
(* Specifications *)

Init ==
    /\ cache = [k \in Keys |-> None]
    /\ clock = 0
    /\ pc = "idle"
    /\ key = CHOOSE k \in Keys : TRUE
    /\ page = 1
    /\ all_issues = <<>>
    /\ requests = <<>>
    /\ responses = <<>>
    /\ fetch_err = 0
    /\ returned = <<>>
    /\ filter = NoFilter
    /\ now = 0
    /\ filtered_issues = <<>>
    /\ resolution_times = <<>>
    /\ avg_resolution = None
    /\ dow_counts = [d \in {} |-> NaN]
    /\ outcome = "running"

Next == Trigger \/ FetchPage \/ Main \/ Tick

Spec == Init /\ [][Next]_vars

\* The loop of fetch_all_issues runs on: each iteration is a blocking call
\* followed by straight-line code.
FairSpec == Spec /\ WF_vars(FetchPage)

\* The main execution on every list of issues fetch_all_issues can return.
InitMain ==
    /\ cache = [k \in Keys |-> None]
    /\ clock = 0
    /\ pc = "main"
    /\ key = CHOOSE k \in Keys : TRUE
    /\ page = 1
    /\ all_issues = <<>>
    /\ requests = <<>>
    /\ responses = <<>>
    /\ fetch_err = 0
    /\ returned \in SeqsUpTo(Issues, MaxLen)
    /\ filter = NoFilter
    /\ now = 0
    /\ filtered_issues = <<>>
    /\ resolution_times = <<>>
    /\ avg_resolution = None
    /\ dow_counts = [d \in {} |-> NaN]
    /\ outcome = "running"

NextMain == Main

SpecMain == InitMain /\ [][NextMain]_vars

---------------------------------------------------------------------------
(* Properties *)

Success(r) == r.status = HTTP_OK /\ ~r.empty
NoPullRequest(s) == \A i \in 1..Len(s) : ~s[i].pull_request
Min(a, b) == IF a <= b THEN a ELSE b

\* C1: if pages 1..k-1 each answered 200 with a non-empty body and page k
\* answers another status, the fetch stops with that request (k requests
\* made, the call has returned) and returns the empty list: none of the
\* issues accumulated from pages 1..k-1 is in the result.
C1_ErrorDiscardsPartial ==
    \A k \in 1..MAX_PAGES :
        ( /\ pc # "idle"
          /\ Len(responses) >= k
          /\ \A j \in 1..(k - 1) : Success(responses[j])
          /\ responses[k].status # HTTP_OK )
        => /\ pc = "main"
           /\ Len(requests) = k
           /\ fetch_err = responses[k].status
           /\ returned = <<>>

\* A 403 on a later page, with issues already accumulated from earlier ones.
C1_Witness ==
    /\ pc = "main"
    /\ Len(responses) >= 2
    /\ responses[Len(responses)].status = 403
    /\ all_issues # <<>>
    /\ returned = <<>>

\* C2: the value a failed fetch returned (held by the cache with the error
\* the call showed) differs from the value a fetch returns whose first page
\* answered 200 with no entries.
C2_FailureDistinctFromEmpty ==
    \A k \in Keys :
        ( /\ pc = "main"
          /\ responses = <<[status |-> HTTP_OK, empty |-> TRUE]>>
          /\ cache[k] # None
          /\ cache[k][1].err # 0 )
        => returned # cache[k][1].value

\* C3: a run that ends with an empty issue set (nothing fetched, or nothing
\* left by the date filter) and in which no page request failed ends with
\* the "no issues for the selected criteria" warning, not with the error.
C3_EmptyIsNoDataNotError ==
    ( /\ pc = "idle"
      /\ outcome \notin {"running", "exception"}
      /\ fetch_err = 0
      /\ (returned = <<>> \/ filtered_issues = <<>>) )
    => outcome = "warning"

\* C4: a call of fetch_all_issues makes at most 50 page requests, holds at
\* most one page's worth of issues per request made (so at most 50 * 100),
\* and always returns.
C4_FetchTerminatesBounded ==
    /\ [](/\ Len(requests) <= MAX_PAGES
          /\ Len(all_issues) <= Min(MaxPageLen, per_page) * Len(requests)
          /\ Len(returned) <= MAX_PAGES * per_page)
    /\ ((pc = "fetch") ~> (pc = "main"))

\* The call returned by the safety break, after page 50.
C4_Witness ==
    /\ pc = "main"
    /\ Len(requests) = MAX_PAGES
    /\ Success(responses[MAX_PAGES])

\* C5: no entry carrying the pull_request marker is ever in the accumulator,
\* in the value fetch_all_issues returns (or the cache serves), or in what
\* the date filter and the metrics are given.
C5_NoPullRequests ==
    /\ NoPullRequest(all_issues)
    /\ NoPullRequest(returned)
    /\ NoPullRequest(filtered_issues)
    /\ \A k \in Keys : cache[k] # None => NoPullRequest(cache[k][1].value)

\* Page 1 held entries, all of them pull requests: nothing was accumulated.
C5_Witness ==
    /\ pc = "fetch"
    /\ page = 2
    /\ Success(responses[1])
    /\ all_issues = <<>>

\* C9: the requests of one call are pages 1, 2, ..., n in this order with
\* n <= 50; every page before the last answered 200 with a non-empty raw
\* body; while the loop runs every page so far did (a page of pull requests
\* only included); and a call that made requests ended because its last
\* page failed, was empty, or was page 50.
C9_SequentialPages ==
    LET n == Len(requests)
    IN /\ requests = [i \in 1..n |-> i]
       /\ Len(responses) = n
       /\ n <= MAX_PAGES
       /\ \A i \in 1..(n - 1) : Success(responses[i])
       /\ pc = "fetch" => /\ page = n + 1
                          /\ \A i \in 1..n : Success(responses[i])
       /\ (pc = "main" /\ n > 0) =>
             \/ responses[n].status # HTTP_OK
             \/ responses[n].empty
             \/ n = MAX_PAGES

\* Two pages of pull requests only, and the loop goes on to page 3.
C9_Witness ==
    /\ pc = "fetch"
    /\ requests = <<1, 2>>
    /\ all_issues = <<>>

\* C10: a failed fetch is stored under its key like any result; a trigger
\* for a key whose entry is younger than 300 seconds makes no request and
\* yields the stored value and error; a trigger starts requests only when
\* its key has no entry or one at least 300 seconds old; requests are made
\* nowhere else.
C10_CacheServesFailure ==
    [][ /\ (pc = "fetch" /\ pc' = "main" /\ fetch_err' # 0) =>
              cache'[key] = Some([value |-> returned', err |-> fetch_err',
                                  stored_at |-> clock])
        /\ (pc = "idle" /\ pc' # "idle") =>
              LET e == cache[key']
              IN IF e # None /\ clock - e[1].stored_at < TTL
                 THEN /\ pc' = "main"
                      /\ requests' = <<>>
                      /\ returned' = e[1].value
                      /\ fetch_err' = e[1].err
                      /\ cache' = cache
                 ELSE pc' = "fetch"
        /\ (requests' # requests /\ requests' # <<>>) => pc = "fetch"
        /\ (pc = "main") => requests' = <<>>
      ]_vars

\* A re-trigger, some time after a fetch for the key failed, served from the
\* cache, while the other key holds a result of its own.
C10_Witness ==
    /\ pc = "main"
    /\ requests = <<>>
    /\ fetch_err # 0
    /\ returned = <<>>
    /\ cache[key] # None
    /\ cache[key][1].stored_at < clock

\* The predicate of section 4.2 for the selected filter, on plain numbers.
Satisfies(issue, f, nw) ==
    LET c == issue.created_at
    IN CASE f.filter_type = "All Time" -> TRUE
         [] f.filter_type = "Specific Day" ->
              c \div SECONDS_PER_DAY = f.kwargs.selected_date
         [] f.filter_type = "Date Range" ->
              /\ f.kwargs.start_date * SECONDS_PER_DAY <= c
              /\ c <= f.kwargs.end_date * SECONDS_PER_DAY
         [] f.filter_type = "Last N Days" ->
              c >= nw - (f.kwargs.n_days * SECONDS_PER_DAY)
         [] f.filter_type = "Last N Weeks" ->
              c >= nw - (f.kwargs.n_weeks * 7 * SECONDS_PER_DAY)
         [] f.filter_type = "Last N Months" ->
              c >= nw - (f.kwargs.n_months * 30 * SECONDS_PER_DAY)
         [] OTHER -> FALSE

\* C6: for every filter the date filter returns the subsequence of its
\* input, in input order, of exactly the issues whose created_at satisfies
\* the predicate of the filter (the input itself for "All Time").
C6_FilterSelectsInOrder ==
    (pc = "idle" /\ filter # NoFilter) =>
        LET Test(issue) == Satisfies(issue, filter, now)
        IN /\ outcome # "exception"
           /\ filtered_issues = SelectSeq(returned, Test)

RECURSIVE SumCounts(_, _)
SumCounts(counts, days) ==
    IF days = {} THEN 0
    ELSE LET d == CHOOSE x \in days : TRUE
         IN counts[d][1] + SumCounts(counts, days \ {d})

\* C7: for every filtered issue set, the empty one included, the weekday
\* grouping has exactly the buckets Monday..Sunday, each bucket holds a
\* number (0 for a weekday without issue), and the seven numbers sum to the
\* number of filtered issues.
C7_SevenWeekdayBuckets ==
    (pc = "idle" /\ outcome \in {"report", "warning"}) =>
        /\ DOMAIN dow_counts = WeekdaySet
        /\ \A d \in WeekdaySet : IsNumber(dow_counts[d])
        /\ SumCounts(dow_counts, WeekdaySet) = Len(filtered_issues)

ClosedIssues(s) == {i \in 1..Len(s) : s[i].state = "closed"}

RECURSIVE SumResolution(_, _)
SumResolution(s, idx) ==
    IF idx = {} THEN 0
    ELSE LET i == CHOOSE x \in idx : TRUE
         IN (s[i].closed_at[1] - s[i].created_at) + SumResolution(s, idx \ {i})

\* C8: the average resolution time is absent ("N/A") exactly when the
\* filtered set holds no closed issue; otherwise it is the sum of
\* (closed_at - created_at) over the closed issues, in days, divided by the
\* number of closed issues, open issues adding nothing to either (the mean
\* is the fraction num / den of a day).
C8_AverageOverClosedOnly ==
    (pc = "idle" /\ outcome \in {"report", "warning"}) =>
        LET closed == ClosedIssues(filtered_issues)
        IN /\ (avg_resolution = None) <=> (closed = {})
           /\ closed # {} =>
                /\ avg_resolution[1].num = SumResolution(filtered_issues, closed)
                /\ avg_resolution[1].den = Cardinality(closed) * SECONDS_PER_DAY

\* An open issue beside closed ones: the mean is over the closed ones.
C8_Witness ==
    /\ pc = "idle"
    /\ outcome = "report"
    /\ \E i \in 1..Len(filtered_issues) : filtered_issues[i].state = "open"
    /\ Cardinality(ClosedIssues(filtered_issues)) = 2
    /\ avg_resolution # None
    /\ avg_resolution[1].num > 0
====
